---- MODULE Spec2Model ----
(***************************************************************************)
(* Model of the data pipeline of src/app.py (dashboard of RN 518           *)
(* indicators): the filter conditions of the warehouse query, the period   *)
(* columns and display name of append_period_columns, the annual           *)
(* replication of prepare_series_data, the indicator classifier and status *)
(* table, and the ranking of show_ranking_table.                           *)
(*                                                                         *)
(* A table is a sequence of rows; a row is a record of the columns the     *)
(* pipeline reads.  Real numbers are integers in millionths (0.75 is       *)
(* 750000), a missing number is NaN, a SQL NULL string is Null.            *)
(***************************************************************************)
EXTENDS Integers, Sequences, FiniteSets, TLC

VARIABLES
    pc,                 \* position in main(): which step ran last
    warehouse,          \* rows of the joined view `base b`, in ORDER BY order
    selected_filters,   \* the filters dict handed to load_indicators
    data,               \* load_indicators(selected_filters)
    series_raw,         \* load_indicators(selected_filters, ignore_period_filters=True)
    series_data,        \* prepare_series_data(series_raw)
    column,             \* classify_indicator_value: argument column
    value,              \* classify_indicator_value: argument value
    status,             \* classify_indicator_value: returned label
    status_table,       \* show_indicator_status: the rows of st.table
    ranking,            \* show_ranking_table: the rows of st.dataframe
    report,             \* show_ranking_table: how the call ended
    frames              \* the DataFrame objects of a caller, by identity

vars == <<pc, warehouse, selected_filters, data, series_raw, series_data,
          column, value, status, status_table, ranking, report, frames>>

\* What the pages below the filters render.
views == <<status_table, ranking, report, frames>>
NoViews ==
    /\ status_table = <<>>
    /\ ranking = <<>>
    /\ report = "none"
    /\ frames = [objects |-> <<>>, returned |-> 0]

(***************************************************************************)
(* Bounds of the model.                                                    *)
(***************************************************************************)
MaxFilterRows == 2

\* pd.isna(value) / None: the missing number.
NaN == -999999999
\* SQL NULL / None in a string column.
Null == "<NULL>"

Range(s) == {s[i] : i \in DOMAIN s}

(***************************************************************************)
(* Rows of the warehouse.                                                  *)
(***************************************************************************)
RegAns == {"A000001", "A000002", "A000003"}
Anos == {2023, 2024}
Quarters == {1, 2, 3, 4}

\* The columns of one row that the pipeline reads (load_indicators' SELECT).
Row(reg, ano, tri, moda, porte, sin) ==
    [reg_ans |-> reg, ano |-> ano, trimestre |-> tri, modalidade |-> moda,
     porte |-> porte, nome_fantasia |-> reg, razao_social |-> Null,
     sinistralidade |-> sin, margem_lucro_liquida |-> NaN,
     liquidez_corrente |-> NaN]

\* ORDER BY b.ano DESC, b.trimestre DESC, b.reg_ans (ties in either order).
RegRank(reg) == CASE reg = "A000001" -> 1 [] reg = "A000002" -> 2 [] OTHER -> 3
OrderByLeq(r, s) ==
    \/ r.ano > s.ano
    \/ r.ano = s.ano /\ r.trimestre > s.trimestre
    \/ r.ano = s.ano /\ r.trimestre = s.trimestre
       /\ RegRank(r.reg_ans) <= RegRank(s.reg_ans)
IsOrdered(t) == \A i \in 1..(Len(t) - 1) : OrderByLeq(t[i], t[i + 1])

\* The results a query can return: the tables of at most n of the rows, in
\* ORDER BY order.
RECURSIVE OrderedTables(_, _)
OrderedTables(rows, n) ==
    IF n = 0 THEN {<<>>}
    ELSE LET shorter == OrderedTables(rows, n - 1)
         IN  shorter \cup
             {Append(t, r) : <<t, r>> \in
                 {x \in {u \in shorter : Len(u) = n - 1} \X rows :
                     x[1] = <<>> \/ OrderByLeq(x[1][Len(x[1])], x[2])}}

(***************************************************************************)
(* build_filter_conditions: the clauses of the WHERE condition.  A clause  *)
(* is `alias.column IN UNNEST(@param)`; the first one is `1 = 1`.          *)
(***************************************************************************)
\* Mutant of Truthy: a present key counts even when its list is empty.
Truthy_present_only(filters, key) == key \in DOMAIN filters

\* filters.get(key) is truthy: the key is present and its list is non-empty.
Truthy(filters, key) == key \in DOMAIN filters /\ filters[key] # {}
\* filters.get("somente_uniodonto") is truthy.
Flagged(filters) ==
    "somente_uniodonto" \in DOMAIN filters /\ filters["somente_uniodonto"] = TRUE
\* filters.get("uniodonto_reg_ans") or []
AllowList(filters) ==
    IF "uniodonto_reg_ans" \in DOMAIN filters THEN filters["uniodonto_reg_ans"] ELSE {}

\* bigquery.ArrayQueryParameter(name, type, values) beside its clause.
TrueClause == [column |-> "1", type |-> "INT64", param |-> {1}]
Clause(col, type, vals) == [column |-> col, type |-> type, param |-> vals]

\* `if cond: clauses.append(...)`
ClauseIf(cond, col, type, vals) == IF cond THEN <<Clause(col, type, vals)>> ELSE <<>>

\* Mutant of build_filter_conditions: the operator clause replaces the list of
\* clauses instead of being appended to it.
build_filter_conditions_reset(filters, ignore_period_filters) ==
    IF Truthy(filters, "operadoras")
    THEN <<Clause("reg_ans", "STRING", filters["operadoras"])>>
    ELSE <<TrueClause>>
         \o ClauseIf(~ignore_period_filters /\ Truthy(filters, "anos"),
                     "ano", "INT64", filters["anos"])
         \o ClauseIf(~ignore_period_filters /\ Truthy(filters, "trimestres"),
                     "trimestre", "INT64", filters["trimestres"])
         \o ClauseIf(Truthy(filters, "modalidades"),
                     "modalidade", "STRING", filters["modalidades"])
         \o ClauseIf(Truthy(filters, "portes"), "porte", "STRING", filters["portes"])
         \o ClauseIf(Flagged(filters) /\ AllowList(filters) # {},
                     "reg_ans", "STRING", AllowList(filters))

\* Mutant of build_filter_conditions: the flagged restriction is left out.
build_filter_conditions_no_flag(filters, ignore_period_filters) ==
    <<TrueClause>>
    \o ClauseIf(~ignore_period_filters /\ Truthy(filters, "anos"),
                "ano", "INT64", filters["anos"])
    \o ClauseIf(~ignore_period_filters /\ Truthy(filters, "trimestres"),
                "trimestre", "INT64", filters["trimestres"])
    \o ClauseIf(Truthy(filters, "modalidades"),
                "modalidade", "STRING", filters["modalidades"])
    \o ClauseIf(Truthy(filters, "portes"), "porte", "STRING", filters["portes"])
    \o ClauseIf(Truthy(filters, "operadoras"),
                "reg_ans", "STRING", filters["operadoras"])

\* Mutant of build_filter_conditions: ignore_period_filters is not consulted.
build_filter_conditions_period_always(filters, ignore_period_filters) ==
    <<TrueClause>>
    \o ClauseIf(Truthy(filters, "anos"), "ano", "INT64", filters["anos"])
    \o ClauseIf(Truthy(filters, "trimestres"),
                "trimestre", "INT64", filters["trimestres"])
    \o ClauseIf(Truthy(filters, "modalidades"),
                "modalidade", "STRING", filters["modalidades"])
    \o ClauseIf(Truthy(filters, "portes"), "porte", "STRING", filters["portes"])
    \o ClauseIf(Truthy(filters, "operadoras"),
                "reg_ans", "STRING", filters["operadoras"])
    \o ClauseIf(Flagged(filters) /\ AllowList(filters) # {},
                "reg_ans", "STRING", AllowList(filters))

build_filter_conditions(filters, ignore_period_filters) ==
    <<TrueClause>>
    \o ClauseIf(~ignore_period_filters /\ Truthy(filters, "anos"),
                "ano", "INT64", filters["anos"])
    \o ClauseIf(~ignore_period_filters /\ Truthy(filters, "trimestres"),
                "trimestre", "INT64", filters["trimestres"])
    \o ClauseIf(Truthy(filters, "modalidades"),
                "modalidade", "STRING", filters["modalidades"])
    \o ClauseIf(Truthy(filters, "portes"), "porte", "STRING", filters["portes"])
    \o ClauseIf(Truthy(filters, "operadoras"),
                "reg_ans", "STRING", filters["operadoras"])
    \o ClauseIf(Flagged(filters) /\ AllowList(filters) # {},
                "reg_ans", "STRING", AllowList(filters))

\* One clause on one row: `1 = 1`, or SQL's IN (a NULL column is in no list).
ClauseHolds(row, clause) ==
    CASE clause.column = "1" -> TRUE
      [] clause.type = "STRING" ->
            row[clause.column] # Null /\ row[clause.column] \in clause.param
      [] OTHER -> row[clause.column] \in clause.param

\* " AND ".join(clauses), evaluated on one row.
WhereHolds(row, clauses) == \A i \in DOMAIN clauses : ClauseHolds(row, clauses[i])

\* Mutant of run_query: the first row of the result is skipped.
run_query_skip_first(table, clauses) ==
    LET rows == SelectSeq(table, LAMBDA r : WhereHolds(r, clauses))
    IN  IF rows = <<>> THEN rows ELSE Tail(rows)

\* run_query: the rows of the table that satisfy WHERE, in ORDER BY order.
run_query(table, clauses) == SelectSeq(table, LAMBDA r : WhereHolds(r, clauses))

load_indicators(table, filters, ignore_period_filters) ==
    run_query(table, build_filter_conditions(filters, ignore_period_filters))

(***************************************************************************)
(* The inputs of the filter steps.                                         *)
(***************************************************************************)
\* The operators' catalog: modality and size class of each one (the third has
\* no modality on record, the second no size class).
ModalidadeOf(reg) == IF reg = "A000003" THEN Null ELSE "COOPERATIVA"
PorteOf(reg) == IF reg = "A000002" THEN Null ELSE "GRANDE"
\* The periods on file: (ano, trimestre).
FilterPeriods == {<<2023, 4>>, <<2024, 1>>, <<2024, 4>>}
FilterRows ==
    {Row(reg, per[1], per[2], ModalidadeOf(reg), PorteOf(reg), NaN) :
        reg \in RegAns, per \in FilterPeriods}
FilterTables == OrderedTables(FilterRows, MaxFilterRows)

ListKeys == {"anos", "trimestres", "modalidades", "portes", "operadoras"}
\* What a multiselect can hold: nothing, or some of the options.
AnosChoices == {{}, {2024}, {2023, 2024}}
TrimestresChoices == {{}, {4}}
ModalidadesChoices == {{}, {"COOPERATIVA"}}
PortesChoices == {{}, {"GRANDE"}}
OperadorasChoices == {{}, {"A000001"}}
AllowLists == {{}, {"A000002"}}

\* The list keys of a filters dict: all of them (as render_filters returns
\* them), all but one, or none.
PresentKeys == {ListKeys} \cup {ListKeys \ {k} : k \in ListKeys} \cup {{}}

\* A filters dict: the list keys in `present`, the two flag keys always.
FiltersDict(present, a, t, m, p, o, flag, allow) ==
    [k \in present \cup {"somente_uniodonto", "uniodonto_reg_ans"} |->
        CASE k = "anos" -> a
          [] k = "trimestres" -> t
          [] k = "modalidades" -> m
          [] k = "portes" -> p
          [] k = "operadoras" -> o
          [] k = "somente_uniodonto" -> flag
          [] k = "uniodonto_reg_ans" -> allow]

NoFilters == FiltersDict({}, {}, {}, {}, {}, {}, FALSE, {})

(***************************************************************************)
(* main(): the filter steps.                                               *)
(***************************************************************************)
InitFilter ==
    /\ pc = "start"
    /\ warehouse \in FilterTables
    /\ selected_filters = NoFilters
    /\ data = <<>>
    /\ series_raw = <<>>
    /\ series_data = <<>>
    /\ column = ""
    /\ value = NaN
    /\ status = ""
    /\ NoViews

\* render_filters: the dict of the sidebar.  Every key is present, and the
\* "Somente Uniodonto" toggle is disabled while the allow-list is empty.
RenderFilters ==
    /\ pc = "start"
    /\ \E a \in AnosChoices, t \in TrimestresChoices, m \in ModalidadesChoices,
          p \in PortesChoices, o \in OperadorasChoices,
          flag \in BOOLEAN, allow \in AllowLists :
          /\ (flag => allow # {})
          /\ selected_filters' = FiltersDict(ListKeys, a, t, m, p, o, flag, allow)
    /\ pc' = "filters"
    /\ UNCHANGED <<warehouse, data, series_raw, series_data, column, value, status>>
    /\ UNCHANGED views

\* load_indicators(filters: dict, ...): a dict of another caller, which may
\* lack list keys and may ask for the flagged rows with an empty allow-list.
PassFilters ==
    /\ pc = "start"
    /\ \E present \in PresentKeys, a \in AnosChoices, t \in TrimestresChoices,
          m \in ModalidadesChoices, p \in PortesChoices, o \in OperadorasChoices,
          flag \in BOOLEAN, allow \in AllowLists :
          /\ ("anos" \notin present => a = {})
          /\ ("trimestres" \notin present => t = {})
          /\ ("modalidades" \notin present => m = {})
          /\ ("portes" \notin present => p = {})
          /\ ("operadoras" \notin present => o = {})
          /\ (present = ListKeys => (flag /\ allow = {}))
          /\ selected_filters' = FiltersDict(present, a, t, m, p, o, flag, allow)
    /\ pc' = "filters"
    /\ UNCHANGED <<warehouse, data, series_raw, series_data, column, value, status>>
    /\ UNCHANGED views

\* data = load_indicators(selected_filters);
\* series_data = load_indicators(selected_filters, ignore_period_filters=True)
LoadIndicators ==
    /\ pc = "filters"
    /\ data' = load_indicators(warehouse, selected_filters, FALSE)
    /\ series_raw' = load_indicators(warehouse, selected_filters, TRUE)
    /\ pc' = "loaded"
    /\ UNCHANGED <<warehouse, selected_filters, series_data, column, value, status>>
    /\ UNCHANGED views

NextFilter == RenderFilters \/ PassFilters \/ LoadIndicators

SpecFilter == InitFilter /\ [][NextFilter]_vars

(***************************************************************************)
(* append_period_columns: the period key, the period label and the         *)
(* operator's display label of every row.                                  *)
(***************************************************************************)
\* str of the year and of the quarter, as PeriodIndex(...).astype(str) writes them.
YearStr(ano) == CASE ano = 2023 -> "2023" [] ano = 2024 -> "2024"
QuarterStr(tri) == CASE tri = 1 -> "1" [] tri = 2 -> "2" [] tri = 3 -> "3" [] tri = 4 -> "4"
PeriodLabel(ano, tri) == YearStr(ano) \o "Q" \o QuarterStr(tri)

\* periods.to_timestamp(how="end"): the end of the quarter, as the index of
\* its last month counted from year 0.
PeriodEnd(ano, tri) == ano * 12 + 3 * tri

\* str.strip() on the names of the model.
Strip(name) ==
    CASE name = "   " -> ""
      [] name = " Uniodonto " -> "Uniodonto"
      [] name = " Cooperativa " -> "Cooperativa"
      [] OTHER -> name

\* isinstance(x, str) and x.strip()
NonBlank(name) == name # Null /\ Strip(name) # ""

\* The separator of the label, " (U+2022) " in the source.
Bullet == " * "

\* row.get(col) of a name: None when the row has no such column.
GetName(row, col) == IF col \in DOMAIN row THEN row[col] ELSE Null

\* Mutant of build_label: the name is taken as it is, not stripped.
build_label_unstripped(row) ==
    LET fantasia == GetName(row, "nome_fantasia")
        razao == GetName(row, "razao_social")
        nome == IF NonBlank(fantasia) THEN fantasia
                ELSE IF NonBlank(razao) THEN razao
                ELSE row.reg_ans
    IN  row.reg_ans \o Bullet \o nome

build_label(row) ==
    LET fantasia == GetName(row, "nome_fantasia")
        razao == GetName(row, "razao_social")
        nome == IF NonBlank(fantasia) THEN Strip(fantasia)
                ELSE IF NonBlank(razao) THEN Strip(razao)
                ELSE row.reg_ans
    IN  row.reg_ans \o Bullet \o nome

append_period_columns(df) ==
    IF df = <<>> THEN df
    ELSE [i \in DOMAIN df |->
            [periodo |-> PeriodEnd(df[i].ano, df[i].trimestre),
             periodo_label |-> PeriodLabel(df[i].ano, df[i].trimestre),
             operadora_label |-> build_label(df[i])] @@ df[i]]

(***************************************************************************)
(* The inputs of append_period_columns: rows of 2024 Q4 whose names are    *)
(* present, padded, blank or missing, in frames with and without the       *)
(* column razao_social.                                                    *)
(***************************************************************************)
MaxLabelRows == 2

LabelRegAns == {"A000001", "A000002"}
FantasiaValues == {"Uniodonto", " Uniodonto ", "   ", "", Null}
RazaoValues == {"Cooperativa", " Cooperativa ", "   ", Null}
LabelRow(reg, fantasia, razao) ==
    [nome_fantasia |-> fantasia, razao_social |-> razao]
    @@ Row(reg, 2024, 4, ModalidadeOf(reg), PorteOf(reg), 500000)
WithoutRazao(row) == [c \in (DOMAIN row) \ {"razao_social"} |-> row[c]]
LabelRows ==
    {LabelRow(reg, fantasia, razao) :
        reg \in LabelRegAns, fantasia \in FantasiaValues, razao \in RazaoValues}
LabelTables ==
    OrderedTables(LabelRows, MaxLabelRows)
    \cup OrderedTables({WithoutRazao(LabelRow(reg, fantasia, Null)) :
                           reg \in LabelRegAns, fantasia \in FantasiaValues},
                       MaxLabelRows)

\* No filter is active: both loads of main() return the same rows.
InitLabel ==
    /\ pc = "loaded"
    /\ warehouse = <<>>
    /\ selected_filters = NoFilters
    /\ data \in LabelTables
    /\ series_raw = data
    /\ series_data = <<>>
    /\ column = ""
    /\ value = NaN
    /\ status = ""
    /\ NoViews

\* data = append_period_columns(data)
AppendPeriodColumns ==
    /\ pc = "loaded"
    /\ data' = append_period_columns(data)
    /\ pc' = "periods"
    /\ UNCHANGED <<warehouse, selected_filters, series_raw, series_data,
                   column, value, status>>
    /\ UNCHANGED views

NextLabel == AppendPeriodColumns

SpecLabel == InitLabel /\ [][NextLabel]_vars

(***************************************************************************)
(* prepare_series_data: the annual replication.  The column _replicado is  *)
(* the field replicado of a row.                                           *)
(***************************************************************************)
\* The rows of one (reg_ans, ano) group, in the table's order.
GroupRows(df, reg, ano) == SelectSeq(df, LAMBDA r : r.reg_ans = reg /\ r.ano = ano)

\* groupby(["reg_ans", "ano"])["trimestre"].transform("nunique"), for one group.
Nunique(df, reg, ano) == Cardinality({r.trimestre : r \in Range(GroupRows(df, reg, ano))})

\* Mutant of annual_mask: a group of two quarters counts as annual too.
annual_mask_upto_two(df, i) == Nunique(df, df[i].reg_ans, df[i].ano) <= 2

\* annual_mask = freq_per_year <= 1
annual_mask(df, i) == Nunique(df, df[i].reg_ans, df[i].ano) <= 1

\* base_df: the copy with _replicado and periodicidade_registro.
BaseDf(df) ==
    [i \in DOMAIN df |->
        [replicado |-> FALSE,
         periodicidade_registro |->
             IF annual_mask(df, i) THEN "Anual" ELSE "Trimestral"] @@ df[i]]

\* Mutant of MissingQuarters: every quarter is cloned, the observed one too.
MissingQuarters_all(group) == <<1, 2, 3, 4>>

\* missing_quarters = [q for q in (1, 2, 3, 4) if q not in existing_quarters]
MissingQuarters(group) ==
    SelectSeq(<<1, 2, 3, 4>>, LAMBDA q : q \notin {r.trimestre : r \in Range(group)})

\* Mutant of CloneRow: the clone is not flagged.
CloneRow_unflagged(template, trimestre) ==
    [template EXCEPT !.trimestre = trimestre]

\* row_dict = template.to_dict() with trimestre and _replicado overwritten.
CloneRow(template, trimestre) ==
    [template EXCEPT !.trimestre = trimestre, !.replicado = TRUE]

\* Mutant of GroupClones: the template is the last row of the group.
GroupClones_last_row(group) ==
    LET missing_quarters == MissingQuarters(group)
    IN  [k \in 1..Len(missing_quarters) |->
            CloneRow(group[Len(group)], missing_quarters[k])]

\* The clones of one annual group: of its first row, one per missing quarter.
GroupClones(group) ==
    LET missing_quarters == MissingQuarters(group)
    IN  [k \in 1..Len(missing_quarters) |-> CloneRow(group[1], missing_quarters[k])]

\* groupby iterates the groups in the order of their keys (reg_ans, ano).
KeyLess(a, b) ==
    \/ RegRank(a[1]) < RegRank(b[1])
    \/ a[1] = b[1] /\ a[2] < b[2]

RECURSIVE SortedKeys(_)
SortedKeys(keys) ==
    IF keys = {} THEN <<>>
    ELSE LET first == CHOOSE a \in keys : \A b \in keys \ {a} : KeyLess(a, b)
         IN  <<first>> \o SortedKeys(keys \ {first})

RECURSIVE ClonesOf(_, _)
ClonesOf(annual_df, keys) ==
    IF keys = <<>> THEN <<>>
    ELSE GroupClones(GroupRows(annual_df, keys[1][1], keys[1][2]))
         \o ClonesOf(annual_df, Tail(keys))

\* clones: over the groups of annual_df = base_df.loc[annual_mask].
Clones(base_df) ==
    LET annual_df == SelectSeq(base_df, LAMBDA r : r.periodicidade_registro = "Anual")
    IN  ClonesOf(annual_df,
                 SortedKeys({<<r.reg_ans, r.ano>> : r \in Range(annual_df)}))

prepare_series_data(df) ==
    IF df = <<>> THEN df
    ELSE LET base_df == BaseDf(df)
         IN  append_period_columns(base_df \o Clones(base_df))

(***************************************************************************)
(* The inputs of the series step: what load_indicators returned.           *)
(***************************************************************************)
MaxSeriesRows == 3

SeriesRegAns == {"A000001", "A000002"}
\* Two values of an indicator tell the rows of one period apart.
SeriesValues == {500000, 700000}
SeriesRows ==
    {Row(reg, ano, tri, "COOPERATIVA", "GRANDE", sin) :
        reg \in SeriesRegAns, ano \in Anos, tri \in Quarters, sin \in SeriesValues}
SeriesTables == OrderedTables(SeriesRows, MaxSeriesRows)

InitSeries ==
    /\ pc = "loaded"
    /\ warehouse = <<>>
    /\ selected_filters = NoFilters
    /\ data = <<>>
    /\ series_raw \in SeriesTables
    /\ series_data = <<>>
    /\ column = ""
    /\ value = NaN
    /\ status = ""
    /\ NoViews

\* series_data = prepare_series_data(series_data)
PrepareSeries ==
    /\ pc = "loaded"
    /\ series_data' = prepare_series_data(series_raw)
    /\ pc' = "series"
    /\ UNCHANGED <<warehouse, selected_filters, data, series_raw, column, value, status>>
    /\ UNCHANGED views

NextSeries == PrepareSeries

SpecSeries == InitSeries /\ [][NextSeries]_vars

(***************************************************************************)
(* classify_indicator_value.  Values are in millionths (0.75 is 750000,    *)
(* 60 days are 60000000); the labels are written without their accents.    *)
(***************************************************************************)
\* Mutant of classify_sinistralidade: the first boundary is exclusive.
classify_sinistralidade_exclusive(v) ==
    IF v < 750000 THEN "Excelente"
    ELSE IF v <= 850000 THEN "Adequado"
    ELSE "Critico"

classify_sinistralidade(v) ==
    IF v <= 750000 THEN "Excelente"
    ELSE IF v <= 850000 THEN "Adequado"
    ELSE "Critico"

classify_despesas_administrativas(v) ==
    IF v <= 100000 THEN "Enxuto"
    ELSE IF v <= 150000 THEN "Controle"
    ELSE "Pressao"

classify_despesas_comerciais(v) ==
    IF v <= 70000 THEN "Competitivo"
    ELSE IF v <= 120000 THEN "Atencao"
    ELSE "Elevado"

classify_despesas_operacionais(v) ==
    IF v <= 900000 THEN "Controlado"
    ELSE IF v <= 1000000 THEN "Limite"
    ELSE "Desfavoravel"

classify_resultado_financeiro(v) ==
    IF v >= 20000 THEN "Positivo"
    ELSE IF v >= 0 THEN "Neutro"
    ELSE "Negativo"

classify_liquidez_corrente(v) ==
    IF v >= 1200000 THEN "Solida"
    ELSE IF v >= 1000000 THEN "Confortavel"
    ELSE IF v >= 800000 THEN "Alerta"
    ELSE "Risco"

\* Mutant of classify_ct_cp: the second boundary is exclusive.
classify_ct_cp_exclusive(v) ==
    IF v <= 1500000 THEN "Baixo"
    ELSE IF v < 3000000 THEN "Moderado"
    ELSE "Alavancado"

classify_ct_cp(v) ==
    IF v <= 1500000 THEN "Baixo"
    ELSE IF v <= 3000000 THEN "Moderado"
    ELSE "Alavancado"

classify_margem(v) ==
    IF v >= 50000 THEN "Saudavel"
    ELSE IF v >= 0 THEN "Equilibrio"
    ELSE "Prejuizo"

classify_prazo_medio(v) ==
    IF v <= 60000000 THEN "Curto"
    ELSE IF v <= 90000000 THEN "Medio"
    ELSE "Longo"

\* Mutant of classify_unmapped: a column without a ladder of its own gets a
\* ratio ladder instead of the empty label.
classify_unmapped_as_ratio(v) == IF v >= 1000000 THEN "Atende" ELSE "Atencao"

\* return "" once no column matched.
classify_unmapped(v) == ""

\* Mutant of classify_indicator_value: the ladder of the average terms is
\* tried for pm_contraprestacoes only, so pm_eventos falls through.
classify_indicator_value_one_prazo(col, v) ==
    IF v = NaN THEN "Sem dado"
    ELSE CASE col = "sinistralidade" -> classify_sinistralidade(v)
           [] col = "pct_despesas_administrativas" -> classify_despesas_administrativas(v)
           [] col = "pct_despesas_comerciais" -> classify_despesas_comerciais(v)
           [] col = "pct_despesas_operacionais" -> classify_despesas_operacionais(v)
           [] col = "indice_resultado_financeiro" -> classify_resultado_financeiro(v)
           [] col = "liquidez_corrente" -> classify_liquidez_corrente(v)
           [] col = "ct_cp" -> classify_ct_cp(v)
           [] col \in {"margem_financeira_liquida", "margem_operacional",
                       "margem_lucro_liquida"} -> classify_margem(v)
           [] col \in {"pm_contraprestacoes"} -> classify_prazo_medio(v)
           [] OTHER -> classify_unmapped(v)

classify_indicator_value(col, v) ==
    IF v = NaN THEN "Sem dado"
    ELSE CASE col = "sinistralidade" -> classify_sinistralidade(v)
           [] col = "pct_despesas_administrativas" -> classify_despesas_administrativas(v)
           [] col = "pct_despesas_comerciais" -> classify_despesas_comerciais(v)
           [] col = "pct_despesas_operacionais" -> classify_despesas_operacionais(v)
           [] col = "indice_resultado_financeiro" -> classify_resultado_financeiro(v)
           [] col = "liquidez_corrente" -> classify_liquidez_corrente(v)
           [] col = "ct_cp" -> classify_ct_cp(v)
           [] col \in {"margem_financeira_liquida", "margem_operacional",
                       "margem_lucro_liquida"} -> classify_margem(v)
           [] col \in {"pm_contraprestacoes", "pm_eventos"} -> classify_prazo_medio(v)
           [] OTHER -> classify_unmapped(v)

\* INDICATORS: the columns of the catalog.
INDICATORS ==
    <<"sinistralidade", "pct_despesas_administrativas", "pct_despesas_comerciais",
      "pct_despesas_operacionais", "indice_resultado_financeiro", "liquidez_corrente",
      "ct_cp", "pm_contraprestacoes", "pm_eventos", "margem_financeira_liquida",
      "margem_operacional", "margem_lucro_liquida">>

(***************************************************************************)
(* show_indicator_status: the mean of every catalog column of the frame,   *)
(* classified.  A mean is the sum of the present values divided by their   *)
(* number (in millionths, rounded toward zero); a column without a present *)
(* value has no mean.                                                      *)
(***************************************************************************)
RECURSIVE SumOf(_)
SumOf(vals) == IF vals = <<>> THEN 0 ELSE Head(vals) + SumOf(Tail(vals))

\* row.get(col): the value of a column, None when the row has no such column.
RowGet(row, col) == IF col \in DOMAIN row THEN row[col] ELSE NaN

IsPresent(v) == v # NaN

\* df[col].mean() with skipna, and summary.get(col) for a column left out.
Mean(df, col) ==
    LET vals == SelectSeq([i \in DOMAIN df |-> RowGet(df[i], col)], IsPresent)
    IN  IF vals = <<>> THEN NaN
        ELSE IF SumOf(vals) >= 0 THEN SumOf(vals) \div Len(vals)
        ELSE 0 - ((0 - SumOf(vals)) \div Len(vals))

show_indicator_status(df) ==
    IF df = <<>> THEN <<>>
    ELSE [i \in DOMAIN INDICATORS |->
            [Indicador |-> INDICATORS[i],
             Media |-> Mean(df, INDICATORS[i]),
             Status |-> classify_indicator_value(INDICATORS[i],
                                                 Mean(df, INDICATORS[i]))]]

(***************************************************************************)
(* The inputs of the classifier: every column of the catalog and columns   *)
(* outside it; every boundary of a ladder and the values around it.        *)
(***************************************************************************)
ValueDelta == 1

OtherColumns ==
    {"return_on_equity", "technical_reserve_coverage", "solvency_margin",
     "total_beneficiarios"}
ClassifyColumns == Range(INDICATORS) \cup OtherColumns

Boundaries ==
    {0, 20000, 40000, 50000, 70000, 80000, 100000, 120000, 150000, 750000, 800000,
     850000, 900000, 1000000, 1200000, 1500000, 2000000, 3000000, 60000000, 90000000}
ClassifyValues ==
    {NaN} \cup {b + d : b \in Boundaries, d \in (0 - ValueDelta)..ValueDelta}

InitClassify ==
    /\ pc = "start"
    /\ warehouse = <<>>
    /\ selected_filters = NoFilters
    /\ data = <<>>
    /\ series_raw = <<>>
    /\ series_data = <<>>
    /\ column \in ClassifyColumns
    /\ value \in ClassifyValues
    /\ status = ""
    /\ NoViews

\* "Status": classify_indicator_value(indicator.column, value)
Classify ==
    /\ pc = "start"
    /\ status' = classify_indicator_value(column, value)
    /\ pc' = "classified"
    /\ UNCHANGED <<warehouse, selected_filters, data, series_raw, series_data,
                   column, value>>
    /\ UNCHANGED views

\* The frame of show_indicator_status: the catalog columns, of which
\* `column` holds `value` in one row and is missing in the other.
StatusRow(col, v) ==
    [c \in Range(INDICATORS) \cup {col} |-> IF c = col THEN v ELSE NaN]
StatusFrame(col, v) == <<StatusRow(col, v), StatusRow(col, NaN)>>

\* show_indicator_status(data)
ShowIndicatorStatus ==
    /\ pc = "start"
    /\ data' = StatusFrame(column, value)
    /\ status_table' = show_indicator_status(data')
    /\ pc' = "status"
    /\ UNCHANGED <<warehouse, selected_filters, series_raw, series_data,
                   column, value, status, ranking, report, frames>>

NextClassify == Classify \/ ShowIndicatorStatus

SpecClassify == InitClassify /\ [][NextClassify]_vars

(***************************************************************************)
(* show_ranking_table.  The call ends in one of the reports                *)
(*   "table"       the ranking was rendered (st.dataframe),                *)
(*   "Sem dados"   st.info for an empty frame,                             *)
(*   "Sem ranking" st.info: the ranking of the period cannot be built,     *)
(*   "KeyError"    a column read by the function is not in the frame,      *)
(*   "ValueError"  astype(int) met a rank that is missing.                 *)
(***************************************************************************)
\* The columns of a frame (those of its rows).
Columns(df) == DOMAIN df[1]

\* df.loc[:, ["ano", "trimestre"]].sort_values(...).drop_duplicates().iloc[-1]
PeriodLeq(p, q) == p[1] < q[1] \/ (p[1] = q[1] /\ p[2] <= q[2])
latest_period(df) ==
    LET periods == {<<df[i].ano, df[i].trimestre>> : i \in DOMAIN df}
    IN  CHOOSE p \in periods : \A q \in periods : PeriodLeq(q, p)

\* df[(df["ano"] == latest["ano"]) & (df["trimestre"] == latest["trimestre"])]
latest_df(df) ==
    LET latest == latest_period(df)
        InLatest(row) == row.ano = latest[1] /\ row.trimestre = latest[2]
    IN  SelectSeq(df, InLatest)

\* The columns the function reads: the period, and the selection of the
\* ranking (periodo_label is added by append_period_columns).
RankingSelection ==
    {"reg_ans", "periodo_label", "nome_fantasia", "modalidade", "porte",
     "sinistralidade", "margem_lucro_liquida", "liquidez_corrente"}
ColumnsRead == {"ano", "trimestre"} \cup (RankingSelection \ {"periodo_label"})

\* Mutant of Better: an equal value counts as better, which is
\* rank(method="max").
Better_or_equal(ascending, v, w) == IF ascending THEN v <= w ELSE v >= w

\* Whether value v comes strictly before value w in the order of the rank.
Better(ascending, v, w) == IF ascending THEN v < w ELSE v > w

\* Series.rank(ascending=..., method="min"): a missing value has no rank and
\* is not counted against the others.
rank_min(t, col, ascending, i) ==
    IF t[i][col] = NaN THEN NaN
    ELSE 1 + Cardinality({j \in DOMAIN t :
                            /\ t[j][col] # NaN
                            /\ Better(ascending, t[j][col], t[i][col])})

\* ranking[...].copy() with the two rank columns, before astype(int).
Ranked(t) ==
    [i \in DOMAIN t |->
        [ranking_mll |-> rank_min(t, "margem_lucro_liquida", FALSE, i),
         ranking_sinistralidade |-> rank_min(t, "sinistralidade", TRUE, i)]
        @@ [c \in RankingSelection |-> t[i][c]]]

\* .astype(int) raises on a missing rank.
HasMissingRank(t) ==
    \E i \in DOMAIN t : t[i].ranking_mll = NaN \/ t[i].ranking_sinistralidade = NaN

\* ranking.sort_values(["ranking_mll", "ranking_sinistralidade"]): rows that
\* agree on both ranks keep their order.
RankKeyLess(t, i, j) ==
    \/ t[i].ranking_mll < t[j].ranking_mll
    \/ t[i].ranking_mll = t[j].ranking_mll
       /\ t[i].ranking_sinistralidade < t[j].ranking_sinistralidade
    \/ t[i].ranking_mll = t[j].ranking_mll
       /\ t[i].ranking_sinistralidade = t[j].ranking_sinistralidade
       /\ i < j
sort_values(t) ==
    LET Position(i) == 1 + Cardinality({j \in DOMAIN t : RankKeyLess(t, j, i)})
    IN  [k \in DOMAIN t |-> t[CHOOSE i \in DOMAIN t : Position(i) = k]]

show_ranking_table(df) ==
    IF df = <<>> THEN [report |-> "Sem dados", ranking |-> <<>>]
    ELSE IF ~({"ano", "trimestre"} \subseteq Columns(df))
    THEN [report |-> "KeyError", ranking |-> <<>>]
    ELSE IF latest_df(df) = <<>> THEN [report |-> "Sem ranking", ranking |-> <<>>]
    ELSE IF ~(ColumnsRead \subseteq Columns(df))
    THEN [report |-> "KeyError", ranking |-> <<>>]
    ELSE LET ranking_ == Ranked(append_period_columns(latest_df(df)))
         IN  IF HasMissingRank(ranking_)
             THEN [report |-> "ValueError", ranking |-> <<>>]
             ELSE [report |-> "table", ranking |-> sort_values(ranking_)]

(***************************************************************************)
(* The inputs of the ranking: three operators over two quarters of 2024,   *)
(* with equal, different and missing margins and loss ratios.              *)
(***************************************************************************)
MaxRankRows == 3

\* The quarters of 2024 an operator has on file.
RankPeriods(reg) == IF reg = "A000003" THEN {4} ELSE {3, 4}
\* (sinistralidade, margem_lucro_liquida) of a row.
RankValues ==
    {<<500000, 100000>>, <<700000, 100000>>, <<500000, 50000>>,
     <<500000, NaN>>, <<NaN, 50000>>}
RankRow(reg, tri, sin, mll) ==
    [margem_lucro_liquida |-> mll, liquidez_corrente |-> 1200000]
    @@ Row(reg, 2024, tri, ModalidadeOf(reg), PorteOf(reg), sin)
RankRows ==
    UNION {{RankRow(reg, tri, v[1], v[2]) : tri \in RankPeriods(reg), v \in RankValues} :
              reg \in RegAns}
RankTables == OrderedTables(RankRows, MaxRankRows)

\* A frame without one of its columns, as another caller may pass it.
DropColumn(df, col) ==
    [i \in DOMAIN df |-> [c \in (DOMAIN df[i]) \ {col} |-> df[i][c]]]
RequiredColumns == {"sinistralidade", "margem_lucro_liquida", "liquidez_corrente"}

InitRank ==
    /\ pc = "loaded"
    /\ warehouse = <<>>
    /\ selected_filters = NoFilters
    /\ data = <<>>
    /\ series_raw \in RankTables
    /\ series_data = <<>>
    /\ column = ""
    /\ value = NaN
    /\ status = ""
    /\ NoViews

\* show_ranking_table(df) called with a frame that lacks a required column.
PassFrame ==
    /\ pc = "loaded"
    /\ \E col \in RequiredColumns :
          series_data' = DropColumn(prepare_series_data(series_raw), col)
    /\ pc' = "series"
    /\ UNCHANGED <<warehouse, selected_filters, data, series_raw, column, value, status>>
    /\ UNCHANGED views

\* show_ranking_table(series_data)
ShowRanking ==
    /\ pc = "series"
    /\ report' = show_ranking_table(series_data).report
    /\ ranking' = show_ranking_table(series_data).ranking
    /\ pc' = "ranked"
    /\ UNCHANGED <<warehouse, selected_filters, data, series_raw, series_data,
                   column, value, status, status_table, frames>>

NextRank == PrepareSeries \/ PassFrame \/ ShowRanking

SpecRank == InitRank /\ [][NextRank]_vars

(***************************************************************************)
(* The pipeline of main() on one dataset: A000001 files the four quarters  *)
(* of 2024, A000002 files 2024 once.                                       *)
(***************************************************************************)
\* sinistralidade of A000001 by quarter.
ScenarioLossRatio(tri) ==
    CASE tri = 1 -> 700000 [] tri = 2 -> 800000 [] tri = 3 -> 900000
      [] OTHER -> 600000
ScenarioMargins == {50000, 100000, 150000}

\* The rows in ORDER BY order: quarters descending, reg_ans ascending.
ScenarioTable(tri, mll1, mll2) ==
    LET quarterly == [k \in 1..4 |->
                        RankRow("A000001", 5 - k, ScenarioLossRatio(5 - k), mll1)]
        annual == RankRow("A000002", tri, 500000, mll2)
    IN  SubSeq(quarterly, 1, 5 - tri) \o <<annual>> \o SubSeq(quarterly, 6 - tri, 4)

InitScenario ==
    /\ pc = "loaded"
    /\ warehouse = <<>>
    /\ selected_filters = NoFilters
    /\ data = <<>>
    /\ \E tri \in Quarters, mll1 \in ScenarioMargins, mll2 \in ScenarioMargins :
          series_raw = ScenarioTable(tri, mll1, mll2)
    /\ series_data = <<>>
    /\ column = ""
    /\ value = NaN
    /\ status = ""
    /\ NoViews

\* The rows of one operator, as the operadoras filter selects them.
EntityRows(df, reg) ==
    LET OfEntity(row) == row.reg_ans = reg IN SelectSeq(df, OfEntity)

\* show_indicator_status over the year of A000002.
ShowEntityStatus ==
    /\ pc = "series"
    /\ status_table = <<>>
    /\ status_table' = show_indicator_status(EntityRows(series_data, "A000002"))
    /\ UNCHANGED <<pc, warehouse, selected_filters, data, series_raw, series_data,
                   column, value, status, ranking, report, frames>>

NextScenario == PrepareSeries \/ ShowEntityStatus \/ ShowRanking

SpecScenario == InitScenario /\ [][NextScenario]_vars

(***************************************************************************)
(* The three functions on DataFrame objects.  A heap is a sequence of      *)
(* frames, an object is its index; df.copy() and a selection make a new    *)
(* object, an assignment df[col] = ... or an inplace=True call changes the *)
(* object it is applied to.  A call returns the heap it leaves and the     *)
(* object it returns.                                                      *)
(***************************************************************************)
\* Mutant of df_copy: no copy is made, the name is bound to the same object.
df_copy_alias(heap, ref) == [heap |-> heap, ref |-> ref]

\* df.copy(): a new object with the same rows.
df_copy(heap, ref) == [heap |-> Append(heap, heap[ref]), ref |-> Len(heap) + 1]

\* df[col] = ... : the rows of the object become those of `table`.
setitem(heap, ref, table) == [heap EXCEPT ![ref] = table]

\* append_period_columns: "return df" for an empty frame, else df = df.copy()
\* and the three columns are assigned on the copy.
append_period_columns_on(heap, ref) ==
    IF heap[ref] = <<>> THEN [heap |-> heap, ref |-> ref]
    ELSE LET copy == df_copy(heap, ref)
         IN  [heap |-> setitem(copy.heap, copy.ref,
                               append_period_columns(copy.heap[copy.ref])),
              ref |-> copy.ref]

\* prepare_series_data: base_df = df.copy(), the two columns are assigned on
\* base_df, pd.concat makes a new object when there are clones, and the
\* result goes through append_period_columns.
prepare_series_data_on(heap, ref) ==
    IF heap[ref] = <<>> THEN [heap |-> heap, ref |-> ref]
    ELSE LET copy == df_copy(heap, ref)
             marked == setitem(copy.heap, copy.ref, BaseDf(copy.heap[copy.ref]))
             clones == Clones(marked[copy.ref])
             concat == IF clones = <<>> THEN [heap |-> marked, ref |-> copy.ref]
                       ELSE [heap |-> Append(marked, marked[copy.ref] \o clones),
                             ref |-> Len(marked) + 1]
         IN  append_period_columns_on(concat.heap, concat.ref)

\* show_ranking_table: latest_df is a selection (a new object), ranking is a
\* copy of a selection of append_period_columns(latest_df); the rank columns,
\* the sort and the renames change ranking only.  Nothing is returned.
show_ranking_table_on(heap, ref) ==
    IF heap[ref] = <<>> \/ ~(ColumnsRead \subseteq Columns(heap[ref]))
    THEN [heap |-> heap, shown |-> show_ranking_table(heap[ref])]
    ELSE LET latest == Append(heap, latest_df(heap[ref]))
             with_period == append_period_columns_on(latest, Len(latest))
             ranking_ == df_copy(with_period.heap, with_period.ref)
         IN  [heap |-> ranking_.heap,
              shown |-> show_ranking_table(heap[ref])]

(***************************************************************************)
(* A caller that holds one frame and calls the three functions on it, in   *)
(* any order and any number of times.  Of the heap it keeps its frame,     *)
(* object 1, and the object returned by the last call.                     *)
(***************************************************************************)
MaxFrameRows == 2

FrameRows ==
    {RankRow(reg, tri, 500000, mll) :
        reg \in {"A000001", "A000002"}, tri \in {3, 4}, mll \in {100000, NaN}}
FrameTables == OrderedTables(FrameRows, MaxFrameRows)

\* The objects the caller still holds after a call.
Kept(heap, ref) ==
    IF ref \in {0, 1} THEN [objects |-> <<heap[1]>>, returned |-> ref]
    ELSE [objects |-> <<heap[1], heap[ref]>>, returned |-> 2]

InitFrames ==
    /\ pc = "loaded"
    /\ warehouse = <<>>
    /\ selected_filters = NoFilters
    /\ data = <<>>
    /\ series_raw \in FrameTables
    /\ series_data = <<>>
    /\ column = ""
    /\ value = NaN
    /\ status = ""
    /\ status_table = <<>>
    /\ ranking = <<>>
    /\ report = "none"
    /\ frames = [objects |-> <<series_raw>>, returned |-> 0]

CallAppendPeriodColumns ==
    /\ LET call == append_period_columns_on(<<frames.objects[1]>>, 1)
       IN  frames' = Kept(call.heap, call.ref)
    /\ pc' = "append_period_columns"
    /\ UNCHANGED <<warehouse, selected_filters, data, series_raw, series_data,
                   column, value, status, status_table, ranking, report>>

CallPrepareSeriesData ==
    /\ LET call == prepare_series_data_on(<<frames.objects[1]>>, 1)
       IN  frames' = Kept(call.heap, call.ref)
    /\ pc' = "prepare_series_data"
    /\ UNCHANGED <<warehouse, selected_filters, data, series_raw, series_data,
                   column, value, status, status_table, ranking, report>>

CallShowRankingTable ==
    /\ LET call == show_ranking_table_on(<<frames.objects[1]>>, 1)
       IN  /\ frames' = Kept(call.heap, 0)
           /\ report' = call.shown.report
           /\ ranking' = call.shown.ranking
    /\ pc' = "show_ranking_table"
    /\ UNCHANGED <<warehouse, selected_filters, data, series_raw, series_data,
                   column, value, status, status_table>>

NextFrames ==
    CallAppendPeriodColumns \/ CallPrepareSeriesData \/ CallShowRankingTable

SpecFrames == InitFrames /\ [][NextFrames]_vars

(***************************************************************************)
(* Ranking claims (SpecRank).                                              *)
(***************************************************************************)
RankingShown == pc = "ranked"

\* The frame handed to show_ranking_table has rows and every column read.
FrameComplete == series_data # <<>> /\ ColumnsRead \subseteq Columns(series_data)

\* Row i of series_data is of the lexicographically greatest (ano, trimestre).
IsLatest(i) ==
    \A j \in DOMAIN series_data :
        PeriodLeq(<<series_data[j].ano, series_data[j].trimestre>>,
                  <<series_data[i].ano, series_data[i].trimestre>>)
LatestRows == {i \in DOMAIN series_data : IsLatest(i)}

\* Entry k of the ranking shows row i of series_data.
Shows(k, i) ==
    /\ ranking[k].reg_ans = series_data[i].reg_ans
    /\ ranking[k].periodo_label =
         PeriodLabel(series_data[i].ano, series_data[i].trimestre)
    /\ ranking[k].margem_lucro_liquida = series_data[i].margem_lucro_liquida
    /\ ranking[k].sinistralidade = series_data[i].sinistralidade

\* 1 + the number of latest rows whose value of col is present and strictly
\* better than that of row i.
TieRank(col, ascending, i) ==
    1 + Cardinality({j \in LatestRows :
                        /\ series_data[j][col] # NaN
                        /\ IF ascending
                           THEN series_data[j][col] < series_data[i][col]
                           ELSE series_data[j][col] > series_data[i][col]})

\* Every latest row with a margin and a loss ratio is shown with the ranks of
\* the minimum-rank method.
TieRanks ==
    \A i \in LatestRows :
        (series_data[i].margem_lucro_liquida # NaN
         /\ series_data[i].sinistralidade # NaN) =>
            \E k \in DOMAIN ranking :
                /\ Shows(k, i)
                /\ ranking[k].ranking_mll = TieRank("margem_lucro_liquida", FALSE, i)
                /\ ranking[k].ranking_sinistralidade = TieRank("sinistralidade", TRUE, i)

\* The ranking shows the latest rows and nothing else.
LatestOnly ==
    /\ Len(ranking) = Cardinality(LatestRows)
    /\ \A k \in DOMAIN ranking : \E i \in LatestRows : Shows(k, i)
    /\ \A i \in LatestRows : \E k \in DOMAIN ranking : Shows(k, i)

\* Some latest row has no margin or no loss ratio.
LatestHasMissing ==
    \E i \in LatestRows :
        \/ series_data[i].margem_lucro_liquida = NaN
        \/ series_data[i].sinistralidade = NaN

\* C12: within the latest period the primary rank of an entity is 1 + the
\* number of entities with a strictly better (higher) margem_lucro_liquida,
\* so equal values share a rank and the next rank is skipped; the loss-ratio
\* rank is the same with a lower sinistralidade better.
C12_Original ==
    (RankingShown /\ FrameComplete) => TieRanks

\* The latest period holds a tie on the margin next to a row without margin:
\* the call raised and no rank is shown.
C12_Witness ==
    /\ RankingShown /\ FrameComplete
    /\ report = "ValueError"
    /\ \E i, j \in LatestRows :
          /\ i # j
          /\ series_data[i].margem_lucro_liquida # NaN
          /\ series_data[i].margem_lucro_liquida = series_data[j].margem_lucro_liquida

\* C13: for every non-empty series dataset the ranked table holds exactly the
\* rows of the lexicographically greatest (ano, trimestre), replicated rows
\* included, and no row of another period.
C13_Original ==
    (RankingShown /\ FrameComplete) => (report = "table" /\ LatestOnly)

\* The latest period is one of replicated rows only, one of them without
\* margin: no table is shown.
C13_Witness ==
    /\ RankingShown /\ FrameComplete
    /\ report # "table"
    /\ \A i \in LatestRows : series_data[i].replicado
    /\ \E i \in DOMAIN series_data : ~IsLatest(i)

\* C14: when the frame lacks one of sinistralidade, margem_lucro_liquida and
\* liquidez_corrente, show_ranking_table reports that the ranking is
\* unavailable and does not raise.
C14_Original ==
    (RankingShown /\ series_data # <<>>
     /\ ~(RequiredColumns \subseteq Columns(series_data))) =>
        report = "Sem ranking"

\* A frame with rows and without liquidez_corrente went through the call.
C14_Witness ==
    /\ RankingShown /\ series_data # <<>>
    /\ "liquidez_corrente" \notin Columns(series_data)
    /\ report = "KeyError"

\* C19: when a latest row has no margem_lucro_liquida or no sinistralidade,
\* show_ranking_table does not raise: the missing entries are ignored in the
\* ranks of the others and a table or an explanation is shown.
C19_Original ==
    (RankingShown /\ FrameComplete /\ LatestHasMissing) =>
        /\ report \in {"table", "Sem dados", "Sem ranking"}
        /\ report = "table" => TieRanks

\* One latest row has no margin, another has one: the call raised.
C19_Witness ==
    /\ RankingShown /\ FrameComplete
    /\ report = "ValueError"
    /\ \E i, j \in LatestRows :
          /\ series_data[i].margem_lucro_liquida = NaN
          /\ series_data[j].margem_lucro_liquida # NaN
          /\ series_data[j].sinistralidade # NaN

(***************************************************************************)
(* Scenario claim (SpecScenario).                                          *)
(***************************************************************************)
AnnualRows == EntityRows(series_data, "A000002")
IsReplicated(row) == row.replicado

\* C15: with A000001 filing 2024 Q1..Q4 and A000002 filing 2024 once with
\* sinistralidade 0.50, after prepare_series_data A000002 has four 2024 rows,
\* one per quarter, all 0.50, three of them replicated; its average
\* sinistralidade is 0.50 and classified "Excelente"; and the ranking, of
\* 2024 Q4, holds both operators ordered by margin rank, then loss-ratio rank.
C15_Scenario ==
    /\ pc \in {"series", "ranked"} =>
          /\ Len(AnnualRows) = 4
          /\ {AnnualRows[i].trimestre : i \in DOMAIN AnnualRows} = Quarters
          /\ \A i \in DOMAIN AnnualRows :
                AnnualRows[i].ano = 2024 /\ AnnualRows[i].sinistralidade = 500000
          /\ Len(SelectSeq(AnnualRows, IsReplicated)) = 3
    /\ status_table # <<>> =>
          /\ status_table[1].Indicador = "sinistralidade"
          /\ status_table[1].Media = 500000
          /\ status_table[1].Status = "Excelente"
    /\ RankingShown =>
          /\ report = "table"
          /\ Len(ranking) = 2
          /\ {ranking[k].reg_ans : k \in DOMAIN ranking} = {"A000001", "A000002"}
          /\ \A k \in DOMAIN ranking : ranking[k].periodo_label = "2024Q4"
          /\ ranking[1].ranking_mll = 1
          /\ \/ ranking[1].ranking_mll < ranking[2].ranking_mll
             \/ /\ ranking[1].ranking_mll = ranking[2].ranking_mll
                /\ ranking[1].ranking_sinistralidade
                     <= ranking[2].ranking_sinistralidade
          /\ \A k, l \in DOMAIN ranking :
                (ranking[k].reg_ans = "A000002" /\ ranking[l].reg_ans = "A000001") =>
                    (k < l <=> ranking[k].margem_lucro_liquida
                                 >= ranking[l].margem_lucro_liquida)

\* The whole pipeline ran for A000002 filing in Q1: its Q4 row is replicated
\* and leads the ranking on the loss ratio, the margins being equal.
C15_Witness ==
    /\ RankingShown
    /\ status_table # <<>>
    /\ \E i \in DOMAIN series_raw :
          series_raw[i].reg_ans = "A000002" /\ series_raw[i].trimestre = 1
    /\ ranking[1].reg_ans = "A000002"
    /\ ranking[2].ranking_mll = 1
    /\ ranking[2].ranking_sinistralidade = 2

(***************************************************************************)
(* Display-name claim (SpecLabel).                                         *)
(***************************************************************************)
PeriodsAppended == pc = "periods"

\* The name candidates of a row, in the order they are tried.
Candidates(row) ==
    <<GetName(row, "nome_fantasia"), GetName(row, "razao_social")>>
IsNonBlankString(name) ==
    name # Null /\ \E i \in 1..Len(name) : SubSeq(name, i, i) # " "
\* The first candidate that is a non-blank string, or Null.
FirstNonBlank(row) ==
    LET names == Candidates(row)
    IN  IF IsNonBlankString(names[1]) THEN names[1]
        ELSE IF IsNonBlankString(names[2]) THEN names[2]
        ELSE Null

\* The name without its leading and trailing blanks.
RECURSIVE Trimmed(_)
Trimmed(name) ==
    IF name = "" THEN name
    ELSE IF SubSeq(name, 1, 1) = " " THEN Trimmed(SubSeq(name, 2, Len(name)))
    ELSE IF SubSeq(name, Len(name), Len(name)) = " "
    THEN Trimmed(SubSeq(name, 1, Len(name) - 1))
    ELSE name

\* Row i of the output is row i of the input with the added columns.
SameRow(i) ==
    /\ DOMAIN series_raw[i] \subseteq DOMAIN data[i]
    /\ \A c \in DOMAIN series_raw[i] : data[i][c] = series_raw[i][c]

\* C16: for every row, append_period_columns sets operadora_label to
\* "{reg_ans} * {name}", where name is the first of nome_fantasia and
\* razao_social (when the frame has it) that is a non-blank string, stripped
\* of its leading and trailing blanks, and reg_ans when neither is; the rows
\* keep their order.
C16_DisplayName ==
    PeriodsAppended =>
        /\ Len(data) = Len(series_raw)
        /\ \A i \in DOMAIN data :
              /\ SameRow(i)
              /\ data[i].operadora_label =
                    data[i].reg_ans \o Bullet \o
                    (IF FirstNonBlank(series_raw[i]) = Null THEN data[i].reg_ans
                     ELSE Trimmed(FirstNonBlank(series_raw[i])))

\* C16 as stated: the name is the candidate itself.
C16_Original ==
    PeriodsAppended =>
        /\ Len(data) = Len(series_raw)
        /\ \A i \in DOMAIN data :
              /\ SameRow(i)
              /\ data[i].operadora_label =
                    data[i].reg_ans \o Bullet \o
                    (IF FirstNonBlank(series_raw[i]) = Null THEN data[i].reg_ans
                     ELSE FirstNonBlank(series_raw[i]))

\* A row with a blank nome_fantasia and a padded razao_social is labelled
\* with the stripped razao_social, after a row that falls back to reg_ans.
C16_Witness ==
    /\ PeriodsAppended
    /\ Len(data) = 2
    /\ data[1].nome_fantasia = Null /\ GetName(data[1], "razao_social") = "   "
    /\ data[1].operadora_label = "A000001 * A000001"
    /\ data[2].nome_fantasia = "   "
    /\ GetName(data[2], "razao_social") = " Cooperativa "
    /\ data[2].operadora_label = "A000002 * Cooperativa"

(***************************************************************************)
(* Frame claim (SpecFrames).                                               *)
(***************************************************************************)
Called == pc # "loaded"

\* The columns the three functions add.
AddedColumns ==
    {"replicado", "periodicidade_registro", "periodo", "periodo_label",
     "operadora_label", "ranking_mll", "ranking_sinistralidade"}

\* The frame the last call returned.
Returned == frames.objects[frames.returned]

\* C17: after any sequence of calls of append_period_columns,
\* prepare_series_data and show_ranking_table on a frame, the frame of the
\* caller has the rows, columns and values it was loaded with; the added
\* columns and the cloned rows are in another object, the returned one; and
\* what a call gives depends on the input only, whatever calls came before.
C17_InputUnchanged ==
    Called =>
        /\ frames.objects[1] = series_raw
        /\ \A i \in DOMAIN frames.objects[1] :
              DOMAIN frames.objects[1][i] \cap AddedColumns = {}
        /\ pc = "append_period_columns" =>
              /\ Returned = append_period_columns(series_raw)
              /\ series_raw # <<>> => frames.returned # 1
        /\ pc = "prepare_series_data" =>
              /\ Returned = prepare_series_data(series_raw)
              /\ series_raw # <<>> => frames.returned # 1
        /\ pc = "show_ranking_table" =>
              /\ report = show_ranking_table(series_raw).report
              /\ ranking = show_ranking_table(series_raw).ranking

\* prepare_series_data returned a frame with clones, after a ranking of the
\* same input was shown.
C17_Witness ==
    /\ pc = "prepare_series_data"
    /\ report = "table"
    /\ frames.returned = 2
    /\ Len(Returned) > Len(series_raw)
    /\ \E i \in DOMAIN Returned : Returned[i].replicado

(***************************************************************************)
(* Classifier claims (SpecClassify).                                       *)
(***************************************************************************)
Classified == pc = "classified"
StatusShown == pc = "status"

\* The labels of the ladders, "Sem dado" and the empty label.
Labels ==
    {"", "Sem dado", "Adequado", "Alavancado", "Alerta", "Atencao", "Baixo",
     "Competitivo", "Confortavel", "Controlado", "Controle", "Critico", "Curto",
     "Desfavoravel", "Elevado", "Enxuto", "Equilibrio", "Excelente", "Limite",
     "Longo", "Medio", "Moderado", "Negativo", "Neutro", "Positivo", "Prejuizo",
     "Pressao", "Risco", "Saudavel", "Solida"}

\* C11: classify_indicator_value always returns a label; for a value that is
\* not missing the label is empty exactly when the column is not one of the
\* 12 columns of the catalog; and every row of the status table of
\* show_indicator_status, one per catalog indicator, has a non-empty status.
C11_ClassifierTotal ==
    /\ Classified => status \in Labels
    /\ (Classified /\ value # NaN) =>
          (status = "" <=> column \notin Range(INDICATORS))
    /\ StatusShown =>
          /\ Len(status_table) = Len(INDICATORS)
          /\ \A i \in DOMAIN status_table :
                /\ status_table[i].Indicador = INDICATORS[i]
                /\ status_table[i].Status \in Labels \ {""}

\* The status table shows pm_eventos, the last column the classifier tries,
\* with a label of its ladder.
C11_Witness ==
    /\ StatusShown
    /\ \E i \in DOMAIN status_table :
          /\ status_table[i].Indicador = "pm_eventos"
          /\ status_table[i].Status \notin {"", "Sem dado"}

\* C8: sinistralidade is "Excelente" up to 0.75 inclusive, "Adequado" above
\* 0.75 up to 0.85 and "Critico" above 0.85; a missing value is "Sem dado" for
\* every column, recognized or not.
C8_SinistralidadeBoundaries ==
    Classified =>
        /\ value = NaN => status = "Sem dado"
        /\ (column = "sinistralidade" /\ value # NaN) =>
              /\ value <= 750000 => status = "Excelente"
              /\ (750000 < value /\ value <= 850000) => status = "Adequado"
              /\ value > 850000 => status = "Critico"

\* sinistralidade = 0.75 exactly has been classified.
C8_Witness ==
    /\ Classified
    /\ column = "sinistralidade"
    /\ value = 750000
    /\ status = "Excelente"

\* C9 as stated: ct_cp is "Baixo" exactly up to 1.0, "Moderado" exactly above
\* 1.0 up to 2.0 and "Alavancado" exactly above 2.0.
C9_Original ==
    (Classified /\ column = "ct_cp" /\ value # NaN) =>
        /\ status = "Baixo" <=> value <= 1000000
        /\ status = "Moderado" <=> (1000000 < value /\ value <= 2000000)
        /\ status = "Alavancado" <=> value > 2000000

\* C9 (amended): ct_cp is "Baixo" exactly up to 1.5, "Moderado" exactly above
\* 1.5 up to 3.0 and "Alavancado" exactly above 3.0.
C9_LeverageLadder ==
    (Classified /\ column = "ct_cp" /\ value # NaN) =>
        /\ status = "Baixo" <=> value <= 1500000
        /\ status = "Moderado" <=> (1500000 < value /\ value <= 3000000)
        /\ status = "Alavancado" <=> value > 3000000

\* ct_cp = 3.0 exactly has been classified.
C9_Witness ==
    /\ Classified
    /\ column = "ct_cp"
    /\ value = 3000000
    /\ status = "Moderado"

\* The ladders the table gives for the three columns.
TabulatedLabel(col, v) ==
    CASE col = "return_on_equity" ->
            IF v >= 80000 THEN "Excelente"
            ELSE IF v >= 40000 THEN "Adequado"
            ELSE IF v >= 0 THEN "Atencao"
            ELSE "Negativo"
      [] col = "technical_reserve_coverage" ->
            IF v >= 1000000 THEN "Coberto"
            ELSE IF v >= 900000 THEN "Atencao"
            ELSE "Descoberto"
      [] col = "solvency_margin" ->
            IF v >= 1000000 THEN "Atende"
            ELSE IF v >= 800000 THEN "Atencao"
            ELSE "Insuficiente"

TabulatedColumns == {"return_on_equity", "technical_reserve_coverage", "solvency_margin"}

\* C10 as stated: for the three columns and a value that is not missing the
\* label is the one of the tabulated ladder, never the empty label.
C10_Original ==
    (Classified /\ column \in TabulatedColumns /\ value # NaN) =>
        /\ status = TabulatedLabel(column, value)
        /\ status # ""

\* C10 (amended): classify_indicator_value has no ladder for the three
\* columns: for a value that is not missing it returns the empty label.
C10_NoLadderForTabulated ==
    (Classified /\ column \in TabulatedColumns /\ value # NaN) => status = ""

\* A return on equity of 0.08 has been classified.
C10_Witness ==
    /\ Classified
    /\ column = "return_on_equity"
    /\ value = 80000
    /\ status = ""

(***************************************************************************)
(* Series claims (SpecSeries).                                             *)
(***************************************************************************)
Prepared == pc = "series"

\* The (reg_ans, ano) groups of the input of prepare_series_data.
InputGroups == {<<r.reg_ans, r.ano>> : r \in Range(series_raw)}

\* The columns of the source table.
SourceColumns ==
    {"reg_ans", "ano", "trimestre", "modalidade", "porte", "nome_fantasia",
     "razao_social", "sinistralidade", "margem_lucro_liquida",
     "liquidez_corrente"}
SourceOf(row) == [c \in SourceColumns |-> row[c]]

\* How many rows of the table satisfy a condition.
CountRows(df, Test(_)) == Len(SelectSeq(df, Test))

\* C1 as stated: a group with exactly one distinct observed quarter, whatever
\* its number of rows, has exactly 4 rows in the output, one per quarter, of
\* which exactly 3 are replicated.
C1_Original ==
    Prepared =>
        \A g \in InputGroups :
            Nunique(series_raw, g[1], g[2]) = 1 =>
                LET out == GroupRows(series_data, g[1], g[2])
                IN  /\ Len(out) = 4
                    /\ \A q \in Quarters : CountRows(out, LAMBDA r : r.trimestre = q) = 1
                    /\ CountRows(out, LAMBDA r : r.replicado) = 3

\* C1 (amended): a group with exactly one distinct observed quarter q and k
\* rows has k + 3 rows in the output: its k rows of quarter q, not replicated,
\* and exactly one replicated row for each of the three other quarters; that
\* is exactly 4 rows, one per quarter, when the group has a single row.
C1_ReplicationComplete ==
    Prepared =>
        \A g \in InputGroups :
            Nunique(series_raw, g[1], g[2]) = 1 =>
                LET in == GroupRows(series_raw, g[1], g[2])
                    out == GroupRows(series_data, g[1], g[2])
                    q == in[1].trimestre
                IN  /\ Len(out) = Len(in) + 3
                    /\ CountRows(out, LAMBDA r : r.replicado) = 3
                    /\ CountRows(out, LAMBDA r : r.trimestre = q) = Len(in)
                    /\ \A r \in Range(out) : r.trimestre = q => ~r.replicado
                    /\ \A p \in Quarters \ {q} :
                          /\ CountRows(out, LAMBDA r : r.trimestre = p) = 1
                          /\ \A r \in Range(out) : r.trimestre = p => r.replicado
                    /\ (Len(in) = 1 =>
                          /\ Len(out) = 4
                          /\ \A p \in Quarters :
                                CountRows(out, LAMBDA r : r.trimestre = p) = 1)

\* An annual group of one row beside a group that holds its quarter twice.
C1_Witness ==
    /\ Prepared
    /\ \E g \in InputGroups :
          /\ Nunique(series_raw, g[1], g[2]) = 1
          /\ Len(GroupRows(series_raw, g[1], g[2])) = 1
          /\ Len(GroupRows(series_data, g[1], g[2])) = 4
    /\ \E g \in InputGroups :
          /\ Nunique(series_raw, g[1], g[2]) = 1
          /\ Len(GroupRows(series_raw, g[1], g[2])) = 2

\* C2: a group with two or more distinct quarters has exactly its input rows
\* in the output, none added, all of them not replicated and "Trimestral".
C2_QuarterlyUntouched ==
    Prepared =>
        \A g \in InputGroups :
            Nunique(series_raw, g[1], g[2]) >= 2 =>
                LET in == GroupRows(series_raw, g[1], g[2])
                    out == GroupRows(series_data, g[1], g[2])
                IN  /\ Len(out) = Len(in)
                    /\ \A i \in DOMAIN out :
                          /\ SourceOf(out[i]) = in[i]
                          /\ ~out[i].replicado
                          /\ out[i].periodicidade_registro = "Trimestral"

\* A group with only two of the four quarters, beside an annual group that is
\* replicated.
C2_Witness ==
    /\ Prepared
    /\ \E g \in InputGroups :
          /\ Nunique(series_raw, g[1], g[2]) = 2
          /\ Len(GroupRows(series_data, g[1], g[2])) = 2
    /\ \E r \in Range(series_data) : r.replicado

\* The quarters a group of the input has on file.
ExistingQuarters(g) == {r.trimestre : r \in Range(GroupRows(series_raw, g[1], g[2]))}
\* The groups of the input with at most one distinct quarter.
AnnualGroups == {g \in InputGroups : Nunique(series_raw, g[1], g[2]) <= 1}

\* The rows of the output after those of the input: the fabricated ones.
Fabricated == {i \in DOMAIN series_data : i > Len(series_raw)}

\* C18: every row fabricated by prepare_series_data for an annual group
\* agrees with the first row of the group on every source column but
\* trimestre, which is a quarter the group lacks; it has _replicado true and
\* periodicidade_registro "Anual", and its periodo_label is that of the
\* synthesized quarter, not of the quarter of the first row.
C18_CloneFidelity ==
    Prepared =>
        \A i \in Fabricated :
            LET row == series_data[i]
                g == <<row.reg_ans, row.ano>>
                template == GroupRows(series_raw, g[1], g[2])[1]
            IN  /\ g \in AnnualGroups
                /\ \A c \in SourceColumns \ {"trimestre"} : row[c] = template[c]
                /\ row.trimestre \in Quarters \ ExistingQuarters(g)
                /\ row.replicado = TRUE
                /\ row.periodicidade_registro = "Anual"
                /\ row.periodo_label = PeriodLabel(row.ano, row.trimestre)
                /\ row.periodo_label # PeriodLabel(template.ano, template.trimestre)

\* An annual group with two rows of its quarter that differ in
\* sinistralidade: the clones carry the value of the first.
C18_Witness ==
    /\ Prepared
    /\ \E g \in AnnualGroups :
          LET group == GroupRows(series_raw, g[1], g[2])
          IN  /\ Len(group) = 2
              /\ group[1].sinistralidade # group[2].sinistralidade
              /\ \E i \in Fabricated :
                    /\ series_data[i].reg_ans = g[1] /\ series_data[i].ano = g[2]
                    /\ series_data[i].sinistralidade = group[1].sinistralidade

RECURSIVE SumMissing(_)
\* The number of quarters missing over a set of groups.
SumMissing(groups) ==
    IF groups = {} THEN 0
    ELSE LET g == CHOOSE h \in groups : TRUE
         IN  (4 - Cardinality(ExistingQuarters(g))) + SumMissing(groups \ {g})

\* C20: the output of prepare_series_data keeps every input row once, in
\* place, with _replicado false; a row has _replicado true exactly when it was
\* fabricated; no fabricated row has a (reg_ans, ano, trimestre) of the
\* input; and the output has as many rows as the input plus the quarters
\* missing over all annual groups.
C20_ReplicatedFlag ==
    Prepared =>
        /\ Len(series_data) >= Len(series_raw)
        /\ \A i \in DOMAIN series_raw :
              SourceOf(series_data[i]) = series_raw[i] /\ ~series_data[i].replicado
        /\ \A i \in DOMAIN series_data : series_data[i].replicado <=> i \in Fabricated
        /\ \A i \in Fabricated : \A j \in DOMAIN series_raw :
              <<series_data[i].reg_ans, series_data[i].ano, series_data[i].trimestre>>
                # <<series_raw[j].reg_ans, series_raw[j].ano, series_raw[j].trimestre>>
        /\ Len(series_data) = Len(series_raw) + SumMissing(AnnualGroups)

\* An annual group beside a quarterly one: three rows are fabricated.
C20_Witness ==
    /\ Prepared
    /\ Cardinality(AnnualGroups) = 1
    /\ InputGroups # AnnualGroups
    /\ Len(series_data) = Len(series_raw) + 3

(***************************************************************************)
(* Filter claims (SpecFilter).                                             *)
(***************************************************************************)
Loaded == pc = "loaded"

\* C3: filter idempotence: filtering the already filtered table again with the
\* same filters, allow-list and ignore_period_filters value changes nothing.
C3_FilterIdempotent ==
    Loaded =>
        /\ load_indicators(data, selected_filters, FALSE) = data
        /\ load_indicators(series_raw, selected_filters, TRUE) = series_raw

\* The filter kept some rows and dropped others.
C3_Witness ==
    /\ Loaded
    /\ Len(data) >= 1
    /\ Len(data) < Len(warehouse)
    /\ Len(series_raw) >= 1

\* The filters dict without the list keys in `dropped` and, with `clear`, with
\* the flagged restriction switched off: a specification with fewer constraints.
Weaken(filters, dropped, clear) ==
    [k \in DOMAIN filters \ dropped |->
        IF k = "somente_uniodonto" /\ clear THEN FALSE ELSE filters[k]]

\* The list keys that are present and non-empty.
ActiveKeys(filters) == {k \in ListKeys : k \in DOMAIN filters /\ filters[k] # {}}

\* C4: filter monotonicity: the filters keep no more rows than any
\* specification obtained from them by taking constraints away.
C4_FilterMonotone ==
    Loaded =>
        \A dropped \in SUBSET ActiveKeys(selected_filters),
           clear \in {FALSE, Flagged(selected_filters)} :
            /\ Len(data) <=
                  Len(load_indicators(warehouse,
                                      Weaken(selected_filters, dropped, clear), FALSE))
            /\ Len(series_raw) <=
                  Len(load_indicators(warehouse,
                                      Weaken(selected_filters, dropped, clear), TRUE))

\* Taking a constraint away strictly enlarges the result.
C4_Witness ==
    /\ Loaded
    /\ Truthy(selected_filters, "anos")
    /\ Truthy(selected_filters, "operadoras")
    /\ Len(data) >= 1
    /\ Len(data) <
          Len(load_indicators(warehouse,
                              Weaken(selected_filters, {"operadoras"}, FALSE), FALSE))

\* The row's column that each list key constrains.
ColumnOf(key) ==
    CASE key = "anos" -> "ano"
      [] key = "trimestres" -> "trimestre"
      [] key = "modalidades" -> "modalidade"
      [] key = "portes" -> "porte"
      [] key = "operadoras" -> "reg_ans"

\* The row's field is a member of the set of every key of `keys` that is
\* present and non-empty.
MemberOfAll(row, filters, keys) ==
    \A key \in keys :
        (key \in DOMAIN filters /\ filters[key] # {})
            => row[ColumnOf(key)] \in filters[key]

\* The flagged restriction, which acts with a non-empty allow-list only.
InAllowList(row, filters) ==
    (Flagged(filters) /\ AllowList(filters) # {}) => row.reg_ans \in AllowList(filters)

\* C5 as stated: a row is kept if and only if its fields are members of the
\* sets of all five list keys that are present and non-empty.
C5_Original ==
    Loaded =>
        \A i \in DOMAIN warehouse :
            /\ warehouse[i] \in Range(data)
                  <=> MemberOfAll(warehouse[i], selected_filters, ListKeys)
            /\ warehouse[i] \in Range(series_raw)
                  <=> MemberOfAll(warehouse[i], selected_filters, ListKeys)

\* C5 (amended): a row is kept if and only if its fields are members of the
\* sets of the present, non-empty keys among modalidades, portes, operadoras
\* and, unless ignore_period_filters is set, anos and trimestres, and, when
\* somente_uniodonto is set with a non-empty allow-list, its reg_ans is in
\* the allow-list.
C5_FilterMembership ==
    Loaded =>
        \A i \in DOMAIN warehouse :
            /\ warehouse[i] \in Range(data)
                  <=> /\ MemberOfAll(warehouse[i], selected_filters, ListKeys)
                      /\ InAllowList(warehouse[i], selected_filters)
            /\ warehouse[i] \in Range(series_raw)
                  <=> /\ MemberOfAll(warehouse[i], selected_filters,
                                     {"modalidades", "portes", "operadoras"})
                      /\ InAllowList(warehouse[i], selected_filters)

\* One key is present and empty, another is absent, a third one is active and
\* drops a row while another row is kept.
C5_Witness ==
    /\ Loaded
    /\ "anos" \in DOMAIN selected_filters /\ selected_filters["anos"] = {}
    /\ "portes" \notin DOMAIN selected_filters
    /\ Truthy(selected_filters, "modalidades")
    /\ Len(data) = 1
    /\ Len(warehouse) = 2

\* C6 as stated: with somente_uniodonto set, every kept row is of an operator
\* of the allow-list, the empty allow-list included.
C6_Original ==
    (Loaded /\ Flagged(selected_filters)) =>
        \A r \in Range(data) \cup Range(series_raw) :
            r.reg_ans \in AllowList(selected_filters)

\* C6 (amended): with somente_uniodonto set and a non-empty allow-list, every
\* kept row is of an operator of the allow-list.
C6_FlaggedRestriction ==
    (Loaded /\ Flagged(selected_filters) /\ AllowList(selected_filters) # {}) =>
        \A r \in Range(data) \cup Range(series_raw) :
            r.reg_ans \in AllowList(selected_filters)

\* The restriction is on, keeps a row and drops another.
C6_Witness ==
    /\ Loaded
    /\ Flagged(selected_filters)
    /\ AllowList(selected_filters) # {}
    /\ Len(data) = 1
    /\ Len(warehouse) = 2

\* The filters dict with other anos and trimestres entries.
WithPeriod(filters, a, t) ==
    [k \in DOMAIN filters \cup {"anos", "trimestres"} |->
        CASE k = "anos" -> a [] k = "trimestres" -> t [] OTHER -> filters[k]]

\* C7: with ignore_period_filters the kept rows do not depend on the anos and
\* trimestres entries, the other constraints act as they do without the flag,
\* and the series rows of main include the period-filtered rows.
C7_PeriodSuppressed ==
    Loaded =>
        /\ \A a \in AnosChoices, t \in TrimestresChoices :
              load_indicators(warehouse, WithPeriod(selected_filters, a, t), TRUE)
                  = series_raw
        /\ series_raw =
              load_indicators(warehouse,
                              Weaken(selected_filters, {"anos", "trimestres"}, FALSE),
                              FALSE)
        /\ data = load_indicators(series_raw, selected_filters, FALSE)
        /\ Range(data) \subseteq Range(series_raw)

\* The period filter drops a row that the series keeps, and another constraint
\* drops a row from both.
C7_Witness ==
    /\ Loaded
    /\ Truthy(selected_filters, "anos")
    /\ Len(data) < Len(series_raw)
    /\ Len(series_raw) < Len(warehouse)

====
